---- MODULE Spec2Model ----
(***************************************************************************)
(* Market-data-analyzer: the price-path generator (src/src/data_fetcher.py),*)
(* the analytics engine (src/src/analytics.py) and the optional delegate   *)
(* as main calls it (src/main.py).                                         *)
(*                                                                         *)
(* Numbers.  A real is an exact fraction <<n, d>> in lowest terms with     *)
(* d > 0; the pair <<0, 0>> is NaN, pandas' "undefined" entry.  Arithmetic *)
(* with NaN gives NaN, comparisons with NaN are false.                     *)
(*                                                                         *)
(* Random stream.  numpy's legacy global generator is a deterministic      *)
(* function of (seed, number of variates drawn so far).  Its state is the  *)
(* record [key, pos]; the variate at a position is read from `tape`, a     *)
(* table fixed at start-up that stands for "which function numpy is".      *)
(***************************************************************************)
EXTENDS Integers, Sequences, FiniteSets, TLC

(***************************************************************************)
(* Exact fractions                                                         *)
(***************************************************************************)
Abs(x) == IF x < 0 THEN -x ELSE x

RECURSIVE GCD(_, _)
GCD(a, b) == IF b = 0 THEN a ELSE GCD(b, a % b)

\* float64 specials: NaN is 0/0, +inf is 1/0, -inf is -1/0
NaN == <<0, 0>>
PosInf == <<1, 0>>
NegInf == <<-1, 0>>

IsNaN(x) == x = NaN
IsFinite(x) == x[2] # 0

Sign(n) == IF n < 0 THEN -1 ELSE IF n > 0 THEN 1 ELSE 0

Norm(n, d) ==
    IF d = 0 THEN <<Sign(n), 0>>
    ELSE LET g == GCD(Abs(n), Abs(d))
             s == IF d < 0 THEN -1 ELSE 1
         IN <<(s * n) \div g, (s * d) \div g>>

R(n) == <<n, 1>>

\* y[2] / gcd(x[2], y[2]): the factor that brings x to the least common
\* denominator of x and y (keeps the products small)
LcmFactor(x, y) == y[2] \div GCD(x[2], y[2])

RNeg(x) == <<-x[1], x[2]>>

RAdd(x, y) ==
    IF IsNaN(x) \/ IsNaN(y) THEN NaN
    ELSE IF ~IsFinite(x) THEN (IF ~IsFinite(y) /\ y # x THEN NaN ELSE x)
    ELSE IF ~IsFinite(y) THEN y
    ELSE Norm(x[1] * LcmFactor(x, y) + y[1] * LcmFactor(y, x),
              x[2] * LcmFactor(x, y))

RSub(x, y) == RAdd(x, RNeg(y))

RMul(x, y) ==
    IF ~IsFinite(x) \/ ~IsFinite(y) THEN Norm(x[1] * y[1], 0)
    ELSE LET a == Norm(x[1], y[2])
             b == Norm(y[1], x[2])
         IN <<a[1] * b[1], a[2] * b[2]>>

\* x / y; a finite nonzero x over 0 is an infinity, 0 / 0 and inf / inf are NaN
RDiv(x, y) ==
    IF IsNaN(x) \/ IsNaN(y) \/ (~IsFinite(x) /\ ~IsFinite(y)) THEN NaN
    ELSE RMul(x, Norm(y[2], y[1]))

RLt(x, y) ==
    /\ ~IsNaN(x) /\ ~IsNaN(y)
    /\ IF IsFinite(x) /\ IsFinite(y)
       THEN x[1] * LcmFactor(x, y) < y[1] * LcmFactor(y, x)
       ELSE (IF IsFinite(x) THEN 0 ELSE x[1]) < (IF IsFinite(y) THEN 0 ELSE y[1])

RLe(x, y) == ~IsNaN(x) /\ ~IsNaN(y) /\ ~RLt(y, x)

\* max / min of a row as pandas computes them
RMax(x, y) == IF RLt(x, y) THEN y ELSE x

RMin(x, y) == IF RLt(y, x) THEN y ELSE x

RAbs(x) == <<Abs(x[1]), x[2]>>

\* floor of a finite fraction
RFloor(x) == x[1] \div x[2]

\* the sequence <<f[1], .., f[n]>> of a function f on 1..n
RECURSIVE Vector(_, _)
Vector(f, n) == IF n = 0 THEN <<>> ELSE Append(Vector(f, n - 1), f[n])

(***************************************************************************)
(* Values with a square root                                               *)
(***************************************************************************)
\* np.sqrt leaves the fractions, so a value computed with it is kept as the
\* record [rat, coef, rad] that stands for rat + coef * sqrt(rad), rad >= 0.
\* A value without a root has coef = 0 and rad = 0; the undefined value has
\* NaN in every field.  Rounding is not modelled, as for the fractions.
Undefined == [rat |-> NaN, coef |-> NaN, rad |-> NaN]

Surd(rat, coef, rad) ==
    IF IsNaN(rat) \/ IsNaN(coef) \/ IsNaN(rad) THEN Undefined
    ELSE IF coef = R(0) \/ rad = R(0) THEN [rat |-> rat, coef |-> R(0), rad |-> R(0)]
    ELSE [rat |-> rat, coef |-> coef, rad |-> rad]

\* a fraction as such a value
OfReal(x) == Surd(x, R(0), R(0))

IsUndefined(v) == v = Undefined
IsReal(v) == v.coef = R(0) /\ ~IsUndefined(v)
IsRoot(v) == v.rat = R(0) /\ ~IsUndefined(v)

\* np.sqrt(x): NaN for a negative x
Sqrt(x) == IF IsNaN(x) \/ RLt(x, R(0)) THEN Undefined ELSE Surd(R(0), R(1), x)

\* v * k for a fraction k
SurdScale(v, k) == Surd(RMul(v.rat, k), RMul(v.coef, k), v.rad)

\* v * w, where one of the two is a fraction or both are multiples of a root
SurdMul(v, w) ==
    CASE IsUndefined(v) \/ IsUndefined(w) -> Undefined
      [] IsReal(w) -> SurdScale(v, w.rat)
      [] IsReal(v) -> SurdScale(w, v.rat)
      [] IsRoot(v) /\ IsRoot(w) -> Surd(R(0), RMul(v.coef, w.coef), RMul(v.rad, w.rad))

\* v + w, where at most one of the two has a root
SurdAdd(v, w) ==
    CASE IsUndefined(v) \/ IsUndefined(w) -> Undefined
      [] IsReal(w) -> Surd(RAdd(v.rat, w.rat), v.coef, v.rad)
      [] IsReal(v) -> Surd(RAdd(v.rat, w.rat), w.coef, w.rad)

SurdNeg(v) == Surd(RNeg(v.rat), RNeg(v.coef), v.rad)
SurdSub(v, w) == SurdAdd(v, SurdNeg(w))

\* v / w for a fraction v and a w that is a fraction or a multiple of a root:
\* v / (c * sqrt(r)) = (v / (c * r)) * sqrt(r); division by 0 as for fractions
SurdDiv(v, w) ==
    CASE IsUndefined(v) \/ IsUndefined(w) -> Undefined
      [] IsReal(v) /\ IsReal(w) -> OfReal(RDiv(v.rat, w.rat))
      [] IsReal(v) /\ IsRoot(w) -> Surd(R(0), RDiv(v.rat, RMul(w.coef, w.rad)), w.rad)

(***************************************************************************)
(* numpy's global stream (np.random.seed / normal / uniform / randint)     *)
(***************************************************************************)
\* A position of the stream is one variate handed out, whatever number of
\* generator words numpy spends on it.  SampleSize is the number of distinct
\* raw variates; the variate table has one entry for each of the five draws
\* behind a row and repeats after them, shifted by the seed.
SampleSize == 2
TapeLen == 5

Tapes == [1..TapeLen -> 0..(SampleSize - 1)]

\* fault variant: the seed is not applied, the stream stays where it is
SeedStreamIgnored(st, seed) == st

\* np.random.seed(seed): the stream restarts at position 0 of the seed's stream
SeedStream(st, seed) == [key |-> seed, pos |-> 0]

\* the state after n variates have been drawn
Advance(st, n) == [st EXCEPT !.pos = @ + n]

\* the i-th raw variate (i = 1..n) drawn from state st
RawAt(tp, st, i) == tp[((st.key + st.pos + i - 1) % TapeLen) + 1]

\* a standard normal variate and a uniform variate of [0, 1) from a raw one
Gauss(raw) == R(2 * raw - (SampleSize - 1))
Unit(raw) == Norm(raw, SampleSize)

\* fault variant: the scale is ignored, loc + z
NormalUnscaled(tp, st, loc, scale, n) ==
    Vector([i \in 1..n |-> RAdd(loc, Gauss(RawAt(tp, st, i)))], n)

\* np.random.normal(loc, scale, n) = loc + scale * z
Normal(tp, st, loc, scale, n) ==
    Vector([i \in 1..n |-> RAdd(loc, RMul(scale, Gauss(RawAt(tp, st, i))))], n)

\* np.random.uniform(low, high, n) = low + (high - low) * u
Uniform(tp, st, low, high, n) ==
    Vector([i \in 1..n |-> RAdd(low, RMul(RSub(high, low), Unit(RawAt(tp, st, i))))], n)

\* np.random.randint(low, high, n): an integer of [low, high)
RandInt(tp, st, low, high, n) ==
    Vector([i \in 1..n |-> low + RFloor(RMul(R(high - low), Unit(RawAt(tp, st, i))))], n)

(***************************************************************************)
(* np.exp, np.cumsum, pd.date_range(freq='B')                              *)
(***************************************************************************)
\* float64: exp(x) is 0.0 for every x below about -745.13 and inf above 709.78
ExpUnderflow == -745
ExpOverflow == 709

\* fault variant: an arithmetic walk, 1 + x, in place of the exponential
ExpLinear(x) == RAdd(R(1), x)

\* e^x to first order, kept positive and increasing: 1 + x for x >= 0 and
\* 1 / (1 - x) for x < 0; flushed to 0 below the float64 underflow threshold
Exp(x) ==
    IF IsNaN(x) THEN NaN
    ELSE IF RLt(x, R(ExpUnderflow)) THEN R(0)
    ELSE IF RLt(R(ExpOverflow), x) THEN PosInf
    ELSE IF RLt(x, R(0)) THEN RDiv(R(1), RSub(R(1), x))
    ELSE RAdd(R(1), x)

RECURSIVE CumSum(_)
CumSum(s) ==
    IF Len(s) = 0 THEN <<>>
    ELSE LET n == Len(s)
             head == CumSum(SubSeq(s, 1, n - 1))
         IN Append(head, IF n = 1 THEN s[1] ELSE RAdd(head[n - 1], s[n]))

\* day numbers: day % 7 is the weekday, 0 = Monday .. 5 = Saturday, 6 = Sunday
Weekday(d) == d % 7
IsBusinessDay(d) == Weekday(d) < 5

\* the first business day at or after d
RollForward(d) == IF Weekday(d) = 5 THEN d + 2
                  ELSE IF Weekday(d) = 6 THEN d + 1 ELSE d

\* fault variant: calendar days (freq = 'D') instead of business days
NextCalendarDay(d) == d + 1

\* the business day after business day d
NextBusinessDay(d) == RollForward(d + 1)

\* pd.date_range(start, periods = n, freq = 'B')
RECURSIVE DateRange(_, _)
DateRange(start, n) ==
    IF n = 0 THEN <<>>
    ELSE IF n = 1 THEN <<RollForward(start)>>
    ELSE LET head == DateRange(start, n - 1)
         IN Append(head, NextBusinessDay(head[n - 1]))

(***************************************************************************)
(* MarketDataFetcher.generate_stock_prices                                 *)
(***************************************************************************)
\* fault variant: the Low column is left as drawn
RowMinUnrepaired(a, b, c) == b

\* df[['Open', 'High', 'Close']].max(axis = 1) and the min counterpart
RowMax(a, b, c) == Vector([i \in DOMAIN a |-> RMax(RMax(a[i], b[i]), c[i])], Len(a))
RowMin(a, b, c) == Vector([i \in DOMAIN a |-> RMin(RMin(a[i], b[i]), c[i])], Len(a))

\* the frame returned by a call at clock reading t from stream state st
StockFrame(tp, st, t, symbol, days, initial_price, drift, volatility) ==
    LET start_date == t - days
        dates == DateRange(start_date, days)
        returns == Normal(tp, st, drift, volatility, days)
        csum == CumSum(returns)
        prices == Vector([i \in 1..days |-> RMul(initial_price, Exp(csum[i]))], days)
        jo == Uniform(tp, Advance(st, days), <<-5, 1000>>, <<5, 1000>>, days)
        jh == Uniform(tp, Advance(st, 2 * days), R(0), <<1, 100>>, days)
        jl == Uniform(tp, Advance(st, 3 * days), R(0), <<1, 100>>, days)
        open == Vector([i \in 1..days |-> RMul(prices[i], RAdd(R(1), jo[i]))], days)
        high == Vector([i \in 1..days |-> RMul(prices[i], RAdd(R(1), RAbs(jh[i])))], days)
        low == Vector([i \in 1..days |-> RMul(prices[i], RSub(R(1), RAbs(jl[i])))], days)
        volume == RandInt(tp, Advance(st, 4 * days), 1000000, 10000000, days)
    IN [Date |-> dates,
        Symbol |-> Vector([i \in 1..days |-> symbol], days),
        Open |-> open,
        High |-> RowMax(open, high, prices),
        Low |-> RowMin(open, low, prices),
        Close |-> prices,
        Volume |-> volume]

\* fault variant: the call leaves the stream where it found it
StockStreamStuck(st, days) == st

\* the stream state the call leaves behind: five draws of `days` variates
StockStream(st, days) == Advance(st, 5 * days)

\* the stream positions the call reads: those of the five draws
StockReads(st, days) ==
    {Advance(st, k * days).pos + i - 1 : k \in 0..4, i \in 1..days}

(***************************************************************************)
(* MarketDataFetcher.generate_multiple_stocks                              *)
(***************************************************************************)
\* a Python dict as its entries <<key, value>> in insertion order;
\* data[key] = value replaces the value of a key already present
DictPut(d, key, value) ==
    IF \E i \in DOMAIN d : d[i][1] = key
    THEN [i \in DOMAIN d |-> IF d[i][1] = key THEN <<key, value>> ELSE d[i]]
    ELSE Append(d, <<key, value>>)

\* fault variant: no parameters are drawn, every symbol gets the defaults of
\* generate_stock_prices
MultiStepDefaults(tp, st, t, symbol, days) ==
    [frame |-> StockFrame(tp, st, t, symbol, days, R(100), <<1, 2000>>, <<1, 50>>),
     st |-> StockStream(st, days),
     reads |-> StockReads(st, days)]

\* one pass of the loop body for `symbol`, from stream state st
MultiStep(tp, st, t, symbol, days) ==
    LET initial_price == Uniform(tp, st, R(50), R(200), 1)[1]
        drift == Uniform(tp, Advance(st, 1), <<-1, 2000>>, <<1, 1000>>, 1)[1]
        volatility == Uniform(tp, Advance(st, 2), <<1, 100>>, <<3, 100>>, 1)[1]
    IN [frame |-> StockFrame(tp, Advance(st, 3), t, symbol, days,
                             initial_price, drift, volatility),
        st |-> StockStream(Advance(st, 3), days),
        reads |-> {st.pos, Advance(st, 1).pos, Advance(st, 2).pos}
                  \cup StockReads(Advance(st, 3), days)]

\* the loop over symbols: the dict built and the stream state left behind
RECURSIVE MultiFrames(_, _, _, _, _)
MultiFrames(tp, st, t, symbols, days) ==
    IF Len(symbols) = 0 THEN [data |-> <<>>, st |-> st, reads |-> {}]
    ELSE LET n == Len(symbols)
             before == MultiFrames(tp, st, t, SubSeq(symbols, 1, n - 1), days)
             step == MultiStep(tp, before.st, t, symbols[n], days)
         IN [data |-> DictPut(before.data, symbols[n], step.frame),
             st |-> step.st,
             reads |-> before.reads \cup step.reads]

(***************************************************************************)
(* MarketAnalytics (pandas Series operations and the methods built on them)*)
(***************************************************************************)
\* Series.pct_change(): s / s.shift(1) - 1, the first entry having no
\* predecessor
PctChange(s) ==
    Vector([i \in 1..Len(s) |->
               IF i = 1 THEN NaN ELSE RSub(RDiv(s[i], s[i - 1]), R(1))], Len(s))

\* fault variant: fillna(0) in place of dropna()
FillNa(s) == Vector([i \in 1..Len(s) |-> IF IsNaN(s[i]) THEN R(0) ELSE s[i]], Len(s))

\* Series.dropna()
DropNa(s) == SelectSeq(s, LAMBDA x : ~IsNaN(x))

\* fault variant: the overall maximum in place of the running maximum
OverallMax(s) ==
    LET m == CHOOSE x \in {s[j] : j \in 1..Len(s)} : \A j \in 1..Len(s) : RLe(s[j], x)
    IN Vector([i \in 1..Len(s) |-> m], Len(s))

\* Series.cummax()
RECURSIVE CumMax(_)
CumMax(s) ==
    IF Len(s) = 0 THEN <<>>
    ELSE LET n == Len(s)
             head == CumMax(SubSeq(s, 1, n - 1))
         IN Append(head, IF n = 1 THEN s[1] ELSE RMax(head[n - 1], s[n]))

\* Series.min(): the least entry that is not NaN, NaN when there is none
RECURSIVE SeriesMin(_)
SeriesMin(s) ==
    IF Len(s) = 0 THEN NaN
    ELSE LET n == Len(s)
             m == SeriesMin(SubSeq(s, 1, n - 1))
         IN IF IsNaN(s[n]) THEN m ELSE IF IsNaN(m) THEN s[n] ELSE RMin(m, s[n])

\* fault variant: entries leaving the window are never subtracted
RECURSIVE RollSumExpanding(_, _, _)
RollSumExpanding(s, window, i) ==
    IF i = 0 THEN R(0) ELSE RAdd(RollSumExpanding(s, window, i - 1), s[i])

\* the window sum pandas keeps while sliding over s: each entry is added as it
\* enters the window and subtracted as it leaves
RECURSIVE RollSum(_, _, _)
RollSum(s, window, i) ==
    IF i = 0 THEN R(0)
    ELSE LET added == RAdd(RollSum(s, window, i - 1), s[i])
         IN IF i > window THEN RSub(added, s[i - window]) ELSE added

\* the number of observations in the window ending at entry i
RollCount(window, i) == IF i > window THEN window ELSE i

\* Series.rolling(window).mean(); min_periods defaults to the window
RollingMean(s, window) ==
    Vector([i \in 1..Len(s) |->
               IF RollCount(window, i) >= window
               THEN RDiv(RollSum(s, window, i), R(RollCount(window, i)))
               ELSE NaN], Len(s))

\* MarketAnalytics.compute_returns
ComputeReturns(frame) == DropNa(PctChange(frame.Close))

\* MarketAnalytics.compute_max_drawdown
ComputeMaxDrawdown(frame) ==
    LET prices == frame.Close
        cumulative_max == CumMax(prices)
        drawdown == Vector([i \in 1..Len(prices) |->
                               RDiv(RSub(prices[i], cumulative_max[i]),
                                    cumulative_max[i])], Len(prices))
    IN SeriesMin(drawdown)

\* MarketAnalytics.compute_moving_average
ComputeMovingAverage(frame, window) == RollingMean(frame.Close, window)

\* Series.diff(): s - s.shift(1), the first entry having no predecessor
Diff(s) ==
    Vector([i \in 1..Len(s) |-> IF i = 1 THEN NaN ELSE RSub(s[i], s[i - 1])], Len(s))

\* delta.where(delta > 0, 0) and -delta.where(delta < 0, 0): an entry that
\* fails the comparison, NaN included, is replaced by 0
Gains(delta) ==
    Vector([i \in 1..Len(delta) |-> IF RLt(R(0), delta[i]) THEN delta[i] ELSE R(0)],
           Len(delta))
Losses(delta) ==
    Vector([i \in 1..Len(delta) |-> IF RLt(delta[i], R(0)) THEN RNeg(delta[i]) ELSE R(0)],
           Len(delta))

\* MarketAnalytics.compute_rsi
ComputeRsi(frame, window) ==
    LET delta == Diff(frame.Close)
        gain == RollingMean(Gains(delta), window)
        loss == RollingMean(Losses(delta), window)
        rs == Vector([i \in 1..Len(delta) |-> RDiv(gain[i], loss[i])], Len(delta))
    IN Vector([i \in 1..Len(delta) |->
                  RSub(R(100), RDiv(R(100), RAdd(R(1), rs[i])))], Len(delta))

\* the sum of a Series, accumulated from its first entry on
RECURSIVE SeriesSum(_)
SeriesSum(s) ==
    IF Len(s) = 0 THEN R(0) ELSE RAdd(SeriesSum(SubSeq(s, 1, Len(s) - 1)), s[Len(s)])

\* np.mean of a Series: NaN for an empty one
SeriesMean(s) == IF Len(s) = 0 THEN NaN ELSE RDiv(SeriesSum(s), R(Len(s)))

\* the variance with `ddof` delta degrees of freedom: the squared deviations
\* from the mean, summed and divided by count - ddof; NaN when count <= ddof
SeriesVar(s, ddof) ==
    IF Len(s) <= ddof THEN NaN
    ELSE LET avg == SeriesMean(s)
             sqr == Vector([i \in 1..Len(s) |->
                               RMul(RSub(avg, s[i]), RSub(avg, s[i]))], Len(s))
         IN RDiv(SeriesSum(sqr), R(Len(s) - ddof))

\* np.std(series) is series.std(ddof=0); Series.std() itself has ddof=1
SeriesStd(s, ddof) == Sqrt(SeriesVar(s, ddof))

\* fault variant: the deviation of the window with ddof=0
RollingStdPopulation(s, window) ==
    Vector([i \in 1..Len(s) |->
               IF i >= window THEN SeriesStd(SubSeq(s, i - window + 1, i), 0)
               ELSE Undefined], Len(s))

\* Series.rolling(window).std(): the deviation (ddof=1) of the window ending
\* at entry i, undefined before the window is full
RollingStd(s, window) ==
    Vector([i \in 1..Len(s) |->
               IF i >= window THEN SeriesStd(SubSeq(s, i - window + 1, i), 1)
               ELSE Undefined], Len(s))

\* MarketAnalytics.compute_bollinger_bands
ComputeBollingerBands(frame, window, num_std) ==
    LET middle == RollingMean(frame.Close, window)
        std == RollingStd(frame.Close, window)
        n == Len(frame.Close)
    IN [middle |-> middle,
        upper |-> Vector([i \in 1..n |->
                     SurdAdd(OfReal(middle[i]), SurdScale(std[i], num_std))], n),
        lower |-> Vector([i \in 1..n |->
                     SurdSub(OfReal(middle[i]), SurdScale(std[i], num_std))], n)]

\* trading days per year
TradingDays == 252

\* MarketAnalytics.compute_mean
ComputeMean(values) == SeriesMean(values)

\* fault variant: annualized by the number of days, not by its square root
VolatilityTimesDays(returns, annualize) ==
    IF annualize THEN SurdScale(SeriesStd(returns, 0), R(TradingDays))
    ELSE SeriesStd(returns, 0)

\* MarketAnalytics.compute_volatility
ComputeVolatility(returns, annualize) ==
    LET vol == SeriesStd(returns, 0)
    IN IF annualize THEN SurdMul(vol, Sqrt(R(TradingDays))) ELSE vol

\* fault variant: the quotient is formed whatever the deviation is
SharpeUnguarded(returns, risk_free_rate, annualize) ==
    LET mean_return == IF annualize THEN RMul(SeriesMean(returns), R(TradingDays))
                       ELSE SeriesMean(returns)
        std_return == IF annualize
                      THEN SurdMul(SeriesStd(returns, 0), Sqrt(R(TradingDays)))
                      ELSE SeriesStd(returns, 0)
    IN SurdDiv(OfReal(RSub(mean_return, risk_free_rate)), std_return)

\* fault variant: 0.0 unless the deviation is positive, so also when it is
\* undefined
SharpeZeroUnlessPositive(returns, risk_free_rate, annualize) ==
    LET mean_return == IF annualize THEN RMul(SeriesMean(returns), R(TradingDays))
                       ELSE SeriesMean(returns)
        std_return == IF annualize
                      THEN SurdMul(SeriesStd(returns, 0), Sqrt(R(TradingDays)))
                      ELSE SeriesStd(returns, 0)
    IN IF std_return = OfReal(R(0)) \/ IsUndefined(std_return) THEN OfReal(R(0))
       ELSE SurdDiv(OfReal(RSub(mean_return, risk_free_rate)), std_return)

\* MarketAnalytics.compute_sharpe_ratio
ComputeSharpeRatio(returns, risk_free_rate, annualize) ==
    LET mean_return == IF annualize THEN RMul(SeriesMean(returns), R(TradingDays))
                       ELSE SeriesMean(returns)
        std_return == IF annualize
                      THEN SurdMul(SeriesStd(returns, 0), Sqrt(R(TradingDays)))
                      ELSE SeriesStd(returns, 0)
    IN IF std_return = OfReal(R(0)) THEN OfReal(R(0))
       ELSE SurdDiv(OfReal(RSub(mean_return, risk_free_rate)), std_return)

\* Series.max(): the greatest entry that is not NaN, NaN when there is none
RECURSIVE SeriesMax(_)
SeriesMax(s) ==
    IF Len(s) = 0 THEN NaN
    ELSE LET n == Len(s)
             m == SeriesMax(SubSeq(s, 1, n - 1))
         IN IF IsNaN(s[n]) THEN m ELSE IF IsNaN(m) THEN s[n] ELSE RMax(m, s[n])

\* the risk-free rate compute_sharpe_ratio uses when none is given: 0.02
DefaultRiskFreeRate == <<1, 50>>

\* df['Date'].min() and df['Date'].max() of a frame with rows
FirstDate(frame) ==
    CHOOSE d \in {frame.Date[i] : i \in DOMAIN frame.Date} :
        \A i \in DOMAIN frame.Date : d <= frame.Date[i]
LastDate(frame) ==
    CHOOSE d \in {frame.Date[i] : i \in DOMAIN frame.Date} :
        \A i \in DOMAIN frame.Date : frame.Date[i] <= d

\* MarketAnalytics.generate_summary_report on a frame with rows (on a frame
\* without rows df['Close'].iloc[-1] raises IndexError)
GenerateSummaryReport(frame, symbol) ==
    LET returns == ComputeReturns(frame)
        n == Len(frame.Close)
    IN [symbol |-> symbol,
        period |-> <<FirstDate(frame), LastDate(frame)>>,
        total_days |-> n,
        mean_price |-> ComputeMean(frame.Close),
        mean_daily_return |-> ComputeMean(returns),
        volatility_daily |-> ComputeVolatility(returns, FALSE),
        volatility_annual |-> ComputeVolatility(returns, TRUE),
        sharpe_ratio |-> ComputeSharpeRatio(returns, DefaultRiskFreeRate, TRUE),
        max_drawdown |-> ComputeMaxDrawdown(frame),
        min_price |-> SeriesMin(frame.Close),
        max_price |-> SeriesMax(frame.Close),
        total_return |-> RMul(RSub(RDiv(frame.Close[n], frame.Close[1]), R(1)), R(100))]

(***************************************************************************)
(* The optional delegate: json.loads, bool() and format() on its output    *)
(***************************************************************************)
\* the Python values json.loads returns; a dict is its items <<key, value>>
PyNone == [type |-> "None"]
PyFloat(x) == [type |-> "float", number |-> x]
PyStr(text) == [type |-> "str", text |-> text]
PyList(items) == [type |-> "list", items |-> items]
PyDict(items) == [type |-> "dict", items |-> items]

\* bool(v), the test of `if ocaml_result:`
Truthy(v) ==
    CASE v.type = "None" -> FALSE
      [] v.type = "float" -> v.number # R(0)
      [] v.type = "str" -> v.text # ""
      [] v.type \in {"list", "dict"} -> Len(v.items) > 0

\* the exception f"{value:.4f}" raises, "none" for a number
FormatError(v) ==
    CASE v.type = "float" -> "none"
      [] v.type = "str" -> "ValueError"
      [] OTHER -> "TypeError"

\* what the delegate wrote to its standard output: bytes that decode as text
\* or not, and the JSON document the text is, Invalid when it is none
Invalid == [type |-> "invalid"]
Documents ==
    {PyNone, PyFloat(R(0)), PyFloat(R(3)), PyStr("x"), PyList(<<>>),
     PyList(<<PyFloat(R(1))>>), PyDict(<<>>),
     PyDict(<< <<"mean", PyFloat(<<3, 2>>)>>, <<"std", PyFloat(R(0))>> >>),
     PyDict(<< <<"mean", PyStr("x")>> >>),
     PyDict(<< <<"mean", PyFloat(R(1))>>, <<"std", PyNone>> >>)}
Stdouts ==
    {[decodable |-> FALSE, doc |-> Invalid]}
    \cup {[decodable |-> TRUE, doc |-> d] : d \in {Invalid} \cup Documents}

\* subprocess.run(..., timeout=5)
Timeout == 5

\* the environments call_ocaml_analytics is tried in: the state of /tmp, of
\* ./ocaml_analytics/analytics.exe, and what the delegate does when it runs
\* (duration Timeout + 1: it is still running when the timeout expires)
Environments ==
    [tmp : {"writable", "denied", "no_directory"},
     binary : {"runs", "missing", "not_executable", "bad_format"},
     duration : 0..(Timeout + 1),
     status : {0, 1},
     stdout : Stdouts]

\* the first item of a dict whose value format() rejects, 0 when there is none
FirstUnprintable(items) ==
    IF \E i \in DOMAIN items : FormatError(items[i][2]) # "none"
    THEN CHOOSE i \in DOMAIN items :
            /\ FormatError(items[i][2]) # "none"
            /\ \A j \in 1..(i - 1) : FormatError(items[j][2]) = "none"
    ELSE 0

(***************************************************************************)
(* DataFrame.to_csv(index=False) and pd.read_csv(parse_dates=['Date'])     *)
(***************************************************************************)
\* The text of a CSV field, by what read_csv can tell about it: nothing at
\* all, a numeral (with or without a decimal point), a time stamp, or any
\* other word.  A numeral that was written for a string keeps its characters.
\* Quoting is not modelled: no field tried holds a delimiter or a quote.
EmptyText == [kind |-> "empty"]
NumeralText(x, point) == [kind |-> "numeral", number |-> x, point |-> point]
StampText(day) == [kind |-> "timestamp", day |-> day]

\* the strings tried that are numerals, with their values
Numerals == [chars \in {"007"} |-> 7]

\* what to_csv writes for a string, a float64 (NaN: na_rep = ''), an int64 and
\* a datetime64
StrText(chars) ==
    IF chars = "" THEN EmptyText
    ELSE IF chars \in DOMAIN Numerals
    THEN [kind |-> "numeral", number |-> R(Numerals[chars]), point |-> FALSE,
          chars |-> chars]
    ELSE [kind |-> "word", chars |-> chars]
FloatText(x) == IF IsNaN(x) THEN EmptyText ELSE NumeralText(x, TRUE)
IntText(n) == NumeralText(R(n), FALSE)

ColumnNames == <<"Date", "Symbol", "Open", "High", "Low", "Close", "Volume">>

\* df.to_csv(filename, index=False): a header and one line per row
ToCsv(frame) ==
    [header |-> ColumnNames,
     lines |-> Vector([i \in 1..Len(frame.Date) |->
                 [Date |-> StampText(frame.Date[i]),
                  Symbol |-> StrText(frame.Symbol[i]),
                  Open |-> FloatText(frame.Open[i]),
                  High |-> FloatText(frame.High[i]),
                  Low |-> FloatText(frame.Low[i]),
                  Close |-> FloatText(frame.Close[i]),
                  Volume |-> IntText(frame.Volume[i])]], Len(frame.Date))]

\* the words read_csv takes for a missing value (its default na_values)
NaStrings ==
    {"", "#N/A", "#N/A N/A", "#NA", "-1.#IND", "-1.#QNAN", "-NaN", "-nan",
     "1.#IND", "1.#QNAN", "<NA>", "N/A", "NA", "NULL", "NaN", "None", "n/a",
     "nan", "null"}

IsNaText(text) ==
    \/ text.kind = "empty"
    \/ text.kind = "word" /\ text.chars \in NaStrings

\* the column holds nothing but numerals and missing values
AllNumeric(texts) ==
    \A i \in DOMAIN texts : IsNaText(texts[i]) \/ texts[i].kind = "numeral"

\* read_csv's column of the fields `texts`: int64 when every field is a
\* numeral without a point, float64 when every field is a numeral or missing
\* (missing: NaN), else object, holding the strings and NaN for the missing
ReadColumn(texts) ==
    LET n == Len(texts)
    IN IF n = 0 THEN [dtype |-> "object", values |-> <<>>]
       ELSE IF AllNumeric(texts)
       THEN IF \A i \in 1..n : texts[i].kind = "numeral" /\ ~texts[i].point
            THEN [dtype |-> "int64",
                  values |-> Vector([i \in 1..n |-> texts[i].number[1]], n)]
            ELSE [dtype |-> "float64",
                  values |-> Vector([i \in 1..n |->
                               IF IsNaText(texts[i]) THEN NaN ELSE texts[i].number], n)]
       ELSE [dtype |-> "object",
             values |-> Vector([i \in 1..n |->
                          IF IsNaText(texts[i]) THEN PyFloat(NaN)
                          ELSE PyStr(texts[i].chars)], n)]

\* the Date column: parse_dates turns every time stamp into a datetime64
ReadDates(texts) ==
    [dtype |-> "datetime64",
     values |-> Vector([i \in 1..Len(texts) |-> texts[i].day], Len(texts))]

\* pd.read_csv(filename, parse_dates=['Date']) of a file to_csv wrote
ReadCsv(file) ==
    [name \in {file.header[k] : k \in DOMAIN file.header} |->
        LET texts == Vector([i \in 1..Len(file.lines) |-> file.lines[i][name]],
                            Len(file.lines))
        IN IF name = "Date" THEN ReadDates(texts) ELSE ReadColumn(texts)]

(***************************************************************************)
(* Bounds of the model                                                     *)
(***************************************************************************)
MaxDays == 2
MaxCalls == 3
MaxSkew == 1
MaxLen == 4
MaxWindow == 3
MaxRows == 2

Runs == {1, 2}
Instances == {1, 2}
\* the seed MarketDataFetcher() uses when none is given
DefaultSeed == 42
Seeds == {DefaultSeed, DefaultSeed + 1}
Symbols == {"A", "B"}
SymbolLists == {<<"A">>, <<"A", "B">>}
FlatPrices == {R(0), R(50), R(100)}
RepeatedLists == {<<"A", "A">>, <<"B", "A", "B">>}
\* <<initial_price, drift, volatility>> of a call
Parameters == {<<R(100), R(0), R(0)>>, <<R(100), R(-400), <<1, 50>>>>}
\* the close prices the analytics engine is tried on
ClosePrices == {R(95), R(100), R(110)}
Scenario == <<R(100), R(110), R(105), R(95), R(120)>>
CloseSeries ==
    {Scenario} \cup UNION {[1..n -> ClosePrices] : n \in 1..MaxLen}
\* the close prices and the risk-free rates the statistics are tried on
StatPrices == {R(1), R(2), R(4)}
StatSeries == UNION {[1..n -> StatPrices] : n \in 0..MaxLen}
RiskFreeRates == {R(0), <<1, 50>>}
\* the band widths, in deviations, the Bollinger bands are tried with
NumStds == {R(1), R(2)}
\* a frame with the given Close column, dated on consecutive days
FrameOf(closes) == [Date |-> Vector([i \in 1..Len(closes) |-> i], Len(closes)),
                    Close |-> closes]
\* one variate table for the behaviours that vary the clock instead
FixedTape == [i \in 1..TapeLen |-> i % SampleSize]

\* the frames exported: up to MaxRows rows of one symbol, which is a ticker, a
\* ticker that is also a word for a missing value, or a ticker of digits
Filenames == {"prices.csv", "backup.csv"}
CsvSymbols == {"AAPL", "NA", "007"}
CsvRows == {[Open |-> <<201, 2>>, High |-> R(101), Low |-> R(100),
             Close |-> R(101), Volume |-> 1000000],
            [Open |-> R(100), High |-> <<401, 4>>, Low |-> <<389, 4>>,
             Close |-> R(98), Volume |-> 9999999]}
CsvFrames ==
    UNION {{[Date |-> DateRange(0, n),
             Symbol |-> Vector([i \in 1..n |-> symbol], n),
             Open |-> Vector([i \in 1..n |-> rows[i].Open], n),
             High |-> Vector([i \in 1..n |-> rows[i].High], n),
             Low |-> Vector([i \in 1..n |-> rows[i].Low], n),
             Close |-> Vector([i \in 1..n |-> rows[i].Close], n),
             Volume |-> Vector([i \in 1..n |-> rows[i].Volume], n)] :
              symbol \in CsvSymbols, rows \in [1..n -> CsvRows]} :
           n \in 0..MaxRows}

(***************************************************************************)
(* Generator state                                                         *)
(***************************************************************************)
VARIABLES
    tape,      \* the generator's variate table (fixed for a behaviour)
    rng,       \* rng[r]: state of the process-global numpy stream of run r
    now,       \* now[r]: the clock of run r, a day number (weekday = day % 7)
    seeded,    \* seeded[f]: the seed fetcher instance f was constructed with, or -1
    solo,      \* solo[f]: the stream state instance f would have, were it alone
    out,       \* out[r]: what the latest generate call returned in run r
    soloOut,   \* what that call would have returned from solo[f]
    used,      \* the stream and the positions read by the latest call
    prevUsed,  \* the same for the call before it, if no seeding came between
    lastCall,  \* the arguments of the latest call and the stream state it met
    df,        \* the frame handed to the analytics engine
    res,       \* what the latest analytics operation returned
    left,      \* number of operations the behaviour may still perform
    env,       \* what call_ocaml_analytics finds: temporary file, binary, delegate
    pc,        \* where main is in its delegate block
    clock,     \* seconds subprocess.run has waited for the delegate
    proc,      \* the delegate process: "none", "missing", "running", "exited", "killed"
    ocaml_result,  \* what call_ocaml_analytics returned to main
    raised,    \* the exception that left the block, and where it was raised
    shown,     \* what main printed in the block
    files      \* files[name]: the CSV file of that name, or NoFile

genVars == <<tape, rng, now, seeded, solo, out, soloOut, used, prevUsed, lastCall, left>>
anVars == <<df, res>>
delVars == <<env, pc, clock, proc, ocaml_result, raised, shown>>
ioVars == <<files>>
allVars == <<genVars, anVars, delVars, ioVars>>

NoOut == [kind |-> "none", data |-> <<>>]
NoUse == [key |-> -1, reads |-> {}]
NoCall == [kind |-> "none"]
NoFrame == [Date |-> <<>>, Close |-> <<>>]
NoRes == [op |-> "none"]

NoFile == [header |-> <<>>]
NoFiles == [name \in Filenames |-> NoFile]

NoEnv == [tmp |-> "none"]
Unset == [type |-> "unset"]
NoError == [error |-> "none", from |-> "none"]

\* main is run without --use-ocaml: the delegate block is not entered
DelegateUnused ==
    /\ env = NoEnv
    /\ pc = "none"
    /\ clock = 0
    /\ proc = "none"
    /\ ocaml_result = Unset
    /\ raised = NoError
    /\ shown = <<>>

\* the frames of a returned value: the frame itself, or the dict's values
Frames(o) == IF o.kind = "multi" THEN [i \in DOMAIN o.data |-> o.data[i][2]]
             ELSE o.data

\* the stream of a process before any seeding (numpy seeds it from OS entropy,
\* differently in each process) and after MarketDataFetcher(seed)
Unseeded == [r \in Runs |-> [key |-> r, pos |-> 0]]
SeededWith(seed) == [r \in Runs |-> SeedStream(Unseeded[r], seed)]

\* The behaviours explored.  From a process that has just constructed
\* instance 1 with the default seed: one call, for every variate table and
\* for every weekday (the second run starting up to MaxSkew days after the
\* first).  From a process that has constructed nothing: MaxCalls operations,
\* for one table and one day.
Init ==
    /\ \/ /\ tape \in Tapes
          /\ now = [r \in Runs |-> 0]
          /\ left = 1
          /\ rng = SeededWith(DefaultSeed)
       \/ /\ tape = FixedTape
          /\ now \in {[r \in Runs |-> IF r = 1 THEN d ELSE d + k] :
                        d \in 0..6, k \in 0..MaxSkew}
          /\ left = 1
          /\ rng = SeededWith(DefaultSeed)
       \/ /\ tape = FixedTape
          /\ now = [r \in Runs |-> 0]
          /\ left = MaxCalls
          /\ rng = Unseeded
    /\ seeded = [f \in Instances |-> IF f = 1 /\ rng # Unseeded THEN DefaultSeed ELSE -1]
    /\ solo = [f \in Instances |-> [key |-> seeded[f], pos |-> 0]]
    /\ out = [r \in Runs |-> NoOut]
    /\ soloOut = NoOut
    /\ used = NoUse
    /\ files = NoFiles
    /\ prevUsed = NoUse
    /\ lastCall = NoCall
    /\ df = NoFrame
    /\ res = NoRes
    /\ DelegateUnused

\* MarketDataFetcher(seed), in both runs
Construct(f, seed) ==
    /\ left > 0
    /\ left' = left - 1
    /\ rng' = [r \in Runs |-> SeedStream(rng[r], seed)]
    /\ seeded' = [seeded EXCEPT ![f] = seed]
    /\ solo' = [solo EXCEPT ![f] = SeedStream(solo[f], seed)]
    /\ used' = NoUse
    /\ prevUsed' = NoUse
    /\ UNCHANGED <<tape, now, out, soloOut, lastCall, anVars, delVars, ioVars>>

\* the bookkeeping shared by the two generate operations: res[r] is what the
\* call returns and leaves behind in run r, ret[0] the same from solo[f]
Called(f, kind, ret) ==
    /\ out' = [r \in Runs |-> [kind |-> kind, data |-> ret[r].data]]
    /\ soloOut' = [kind |-> kind, data |-> ret[0].data]
    /\ rng' = [r \in Runs |-> ret[r].st]
    /\ solo' = [solo EXCEPT ![f] = ret[0].st]
    /\ used' = [key |-> rng[1].key, reads |-> ret[1].reads]
    /\ prevUsed' = used
    /\ left' = left - 1
    /\ UNCHANGED <<tape, now, seeded, anVars, delVars, ioVars>>

\* f.generate_stock_prices(symbol, days, initial_price, drift, volatility).
\* A negative `days` raises ValueError before anything is drawn (from
\* pd.date_range or, failing that, from np.random.normal with a negative
\* size); days = 0 passes through every step with arrays of length 0.
Generate(f, symbol, days, initial_price, drift, volatility) ==
    /\ seeded[f] # -1
    /\ left > 0
    /\ LET call(st, t) ==
               IF days < 0 THEN [data |-> <<>>, st |-> st, reads |-> {}]
               ELSE [data |-> <<StockFrame(tape, st, t, symbol, days,
                                           initial_price, drift, volatility)>>,
                     st |-> StockStream(st, days),
                     reads |-> StockReads(st, days)]
           ret == <<call(rng[1], now[1]), call(rng[2], now[2])>>
                  @@ (0 :> call(solo[f], now[1]))
       IN /\ Called(f, IF days < 0 THEN "raise" ELSE "single", ret)
          /\ lastCall' = [kind |-> "single", f |-> f, st |-> rng[1], days |-> days,
                          symbol |-> symbol, initial_price |-> initial_price,
                          drift |-> drift, volatility |-> volatility]

\* f.generate_multiple_stocks(symbols, days)
GenerateMultiple(f, symbols, days) ==
    /\ seeded[f] # -1
    /\ left > 0
    /\ LET call(st, t) == MultiFrames(tape, st, t, symbols, days)
           ret == <<call(rng[1], now[1]), call(rng[2], now[2])>>
                  @@ (0 :> call(solo[f], now[1]))
       IN /\ Called(f, "multi", ret)
          /\ lastCall' = [kind |-> "multi", f |-> f, st |-> rng[1], days |-> days,
                          symbols |-> symbols]

Next ==
    \/ \E f \in Instances, seed \in Seeds : Construct(f, seed)
    \/ \E f \in Instances, symbol \in Symbols, days \in (-1)..MaxDays, p \in Parameters :
          Generate(f, symbol, days, p[1], p[2], p[3])
    \/ \E f \in Instances, symbols \in SymbolLists, days \in 1..MaxDays :
          GenerateMultiple(f, symbols, days)

vars == allVars

Spec == Init /\ [][Next]_vars

\* generate_multiple_stocks alone, called by the instance constructed with
\* the default seed, for lists with and without a repeated symbol: one call
\* for every variate table, and two calls in a row for one table
InitMultiple ==
    /\ \/ /\ tape \in Tapes
          /\ left = 1
       \/ /\ tape = FixedTape
          /\ left = 2
    /\ now = [r \in Runs |-> 0]
    /\ rng = SeededWith(DefaultSeed)
    /\ seeded = [f \in Instances |-> IF f = 1 THEN DefaultSeed ELSE -1]
    /\ solo = [f \in Instances |-> [key |-> seeded[f], pos |-> 0]]
    /\ out = [r \in Runs |-> NoOut]
    /\ soloOut = NoOut
    /\ used = NoUse
    /\ files = NoFiles
    /\ prevUsed = NoUse
    /\ lastCall = NoCall
    /\ df = NoFrame
    /\ res = NoRes
    /\ DelegateUnused

NextMultiple ==
    \E symbols \in SymbolLists \cup RepeatedLists, days \in 1..MaxDays :
        GenerateMultiple(1, symbols, days)

SpecMultiple == InitMultiple /\ [][NextMultiple]_vars

(***************************************************************************)
(* The analytics engine applied to a given frame                           *)
(***************************************************************************)
InitAnalytics ==
    /\ df \in {FrameOf(c) : c \in CloseSeries}
    /\ res = NoRes
    /\ tape = FixedTape
    /\ now = [r \in Runs |-> 0]
    /\ left = 0
    /\ rng = Unseeded
    /\ seeded = [f \in Instances |-> -1]
    /\ solo = [f \in Instances |-> [key |-> -1, pos |-> 0]]
    /\ out = [r \in Runs |-> NoOut]
    /\ soloOut = NoOut
    /\ used = NoUse
    /\ files = NoFiles
    /\ prevUsed = NoUse
    /\ lastCall = NoCall
    /\ DelegateUnused

\* fault variant of Returns: the undefined first row is dropped from the frame
\* itself (dropna(inplace=True) on the caller's data)
ReturnsInPlace ==
    /\ res' = [op |-> "returns", val |-> ComputeReturns(df)]
    /\ df' = [Date |-> SubSeq(df.Date, 2, Len(df.Date)),
              Close |-> SubSeq(df.Close, 2, Len(df.Close))]
    /\ UNCHANGED <<genVars, delVars, ioVars>>

\* analytics.compute_returns(df)
Returns ==
    /\ res' = [op |-> "returns", val |-> ComputeReturns(df)]
    /\ UNCHANGED <<df, genVars, delVars, ioVars>>

\* analytics.compute_moving_average(df, window)
MovingAverage(window) ==
    /\ res' = [op |-> "moving_average", window |-> window,
               val |-> ComputeMovingAverage(df, window)]
    /\ UNCHANGED <<df, genVars, delVars, ioVars>>

\* analytics.compute_max_drawdown(df)
MaxDrawdown ==
    /\ res' = [op |-> "max_drawdown", val |-> ComputeMaxDrawdown(df)]
    /\ UNCHANGED <<df, genVars, delVars, ioVars>>

\* analytics.compute_bollinger_bands(df, window, num_std)
BollingerBands(window, num_std) ==
    /\ res' = [op |-> "bollinger_bands", window |-> window, num_std |-> num_std,
               val |-> ComputeBollingerBands(df, window, num_std)]
    /\ UNCHANGED <<df, genVars, delVars, ioVars>>

\* analytics.compute_rsi(df, window)
Rsi(window) ==
    /\ res' = [op |-> "rsi", window |-> window, val |-> ComputeRsi(df, window)]
    /\ UNCHANGED <<df, genVars, delVars, ioVars>>

NextAnalytics ==
    \/ Returns
    \/ \E window \in 1..MaxWindow : MovingAverage(window)
    \/ MaxDrawdown
    \/ \E window \in 1..MaxWindow, num_std \in NumStds : BollingerBands(window, num_std)
    \/ \E window \in 1..MaxWindow : Rsi(window)

SpecAnalytics == InitAnalytics /\ [][NextAnalytics]_vars

(***************************************************************************)
(* The statistics of the analytics engine applied to a given frame         *)
(***************************************************************************)
InitStatistics ==
    /\ df \in {FrameOf(c) : c \in StatSeries}
    /\ res = NoRes
    /\ tape = FixedTape
    /\ now = [r \in Runs |-> 0]
    /\ left = 0
    /\ rng = Unseeded
    /\ seeded = [f \in Instances |-> -1]
    /\ solo = [f \in Instances |-> [key |-> -1, pos |-> 0]]
    /\ out = [r \in Runs |-> NoOut]
    /\ soloOut = NoOut
    /\ used = NoUse
    /\ files = NoFiles
    /\ prevUsed = NoUse
    /\ lastCall = NoCall
    /\ DelegateUnused

\* the Series a statistic is asked for: the closes or their returns
Column(name) == IF name = "Close" THEN df.Close ELSE ComputeReturns(df)

\* analytics.compute_mean(values)
Mean(column) ==
    /\ res' = [op |-> "mean", of |-> Column(column), val |-> ComputeMean(Column(column))]
    /\ UNCHANGED <<df, genVars, delVars, ioVars>>

\* analytics.compute_volatility(analytics.compute_returns(df), annualize)
Volatility(annualize) ==
    /\ res' = [op |-> "volatility", of |-> ComputeReturns(df), annualize |-> annualize,
               val |-> ComputeVolatility(ComputeReturns(df), annualize)]
    /\ UNCHANGED <<df, genVars, delVars, ioVars>>

\* analytics.compute_sharpe_ratio(analytics.compute_returns(df), risk_free_rate, annualize)
Sharpe(risk_free_rate, annualize) ==
    /\ res' = [op |-> "sharpe_ratio", of |-> ComputeReturns(df),
               risk_free_rate |-> risk_free_rate, annualize |-> annualize,
               val |-> ComputeSharpeRatio(ComputeReturns(df), risk_free_rate, annualize)]
    /\ UNCHANGED <<df, genVars, delVars, ioVars>>

\* analytics.generate_summary_report(df, symbol)
SummaryReport(symbol) ==
    /\ res' = IF Len(df.Close) = 0 THEN [op |-> "raise", error |-> "IndexError"]
              ELSE [op |-> "summary_report", val |-> GenerateSummaryReport(df, symbol)]
    /\ UNCHANGED <<df, genVars, delVars, ioVars>>

NextStatistics ==
    \/ \E column \in {"Close", "Returns"} : Mean(column)
    \/ \E annualize \in BOOLEAN : Volatility(annualize)
    \/ \E risk_free_rate \in RiskFreeRates, annualize \in BOOLEAN :
          Sharpe(risk_free_rate, annualize)
    \/ \E symbol \in Symbols : SummaryReport(symbol)

SpecStatistics == InitStatistics /\ [][NextStatistics]_vars

(***************************************************************************)
(* main: a series generated without drift and volatility, and its report   *)
(***************************************************************************)
\* the instance constructed with any of the seeds, for every variate table
InitFlat ==
    /\ tape \in Tapes
    /\ now = [r \in Runs |-> 0]
    /\ left = 1
    /\ \E seed \in Seeds :
          /\ rng = SeededWith(seed)
          /\ seeded = [f \in Instances |-> IF f = 1 THEN seed ELSE -1]
    /\ solo = [f \in Instances |-> [key |-> seeded[f], pos |-> 0]]
    /\ out = [r \in Runs |-> NoOut]
    /\ soloOut = NoOut
    /\ used = NoUse
    /\ files = NoFiles
    /\ prevUsed = NoUse
    /\ lastCall = NoCall
    /\ df = NoFrame
    /\ res = NoRes
    /\ DelegateUnused

\* report = analytics.generate_summary_report(df, symbol), df being the frame
\* generate_stock_prices returned for symbol
Summarize ==
    /\ out[1].kind = "single"
    /\ df' = out[1].data[1]
    /\ res' = IF Len(df'.Close) = 0 THEN [op |-> "raise", error |-> "IndexError"]
              ELSE [op |-> "summary_report",
                    val |-> GenerateSummaryReport(df', lastCall.symbol)]
    /\ UNCHANGED <<genVars, delVars, ioVars>>

NextFlat ==
    \/ \E symbol \in Symbols, days \in 1..MaxDays, initial_price \in FlatPrices :
          Generate(1, symbol, days, initial_price, R(0), R(0))
    \/ Summarize

SpecFlat == InitFlat /\ [][NextFlat]_vars

\* any sequence of operations of the analytics engine on one frame
NextEngine == NextAnalytics \/ NextStatistics

\* the frames tried: the close series shorter than MaxLen
InitEngine ==
    /\ df \in {FrameOf(c) : c \in {s \in StatSeries : Len(s) < MaxLen}}
    /\ res = NoRes
    /\ files = NoFiles
    /\ tape = FixedTape
    /\ now = [r \in Runs |-> 0]
    /\ left = 0
    /\ rng = Unseeded
    /\ seeded = [f \in Instances |-> -1]
    /\ solo = [f \in Instances |-> [key |-> -1, pos |-> 0]]
    /\ out = [r \in Runs |-> NoOut]
    /\ soloOut = NoOut
    /\ used = NoUse
    /\ prevUsed = NoUse
    /\ lastCall = NoCall
    /\ DelegateUnused

SpecEngine == InitEngine /\ [][NextEngine]_vars

(***************************************************************************)
(* main --use-ocaml: the delegate block, after the primary report          *)
(***************************************************************************)
InitDelegate ==
    /\ env \in Environments
    /\ pc = "report"
    /\ clock = 0
    /\ proc = "none"
    /\ ocaml_result = Unset
    /\ raised = NoError
    /\ shown = <<>>
    /\ df = NoFrame
    /\ res = NoRes
    /\ tape = FixedTape
    /\ now = [r \in Runs |-> 0]
    /\ left = 0
    /\ rng = Unseeded
    /\ seeded = [f \in Instances |-> -1]
    /\ solo = [f \in Instances |-> [key |-> -1, pos |-> 0]]
    /\ out = [r \in Runs |-> NoOut]
    /\ soloOut = NoOut
    /\ used = NoUse
    /\ files = NoFiles
    /\ prevUsed = NoUse
    /\ lastCall = NoCall

\* call_ocaml_analytics returns v to main
ReturnToMain(v) ==
    /\ pc' = "returned"
    /\ ocaml_result' = v
    /\ UNCHANGED raised

\* an exception no handler catches leaves the block and main
Propagate(error, from) ==
    /\ pc' = "crashed"
    /\ raised' = [error |-> error, from |-> from]
    /\ UNCHANGED ocaml_result

\* main calls call_ocaml_analytics, which writes the prices to the temporary
\* file and starts the delegate.  open() raises PermissionError for a file it
\* may not write and FileNotFoundError for a missing directory; Popen raises
\* FileNotFoundError for a missing binary, PermissionError for one that is not
\* executable and OSError for one the system cannot execute.  Of these only
\* FileNotFoundError is caught.
CallOcamlAnalytics ==
    /\ pc = "report"
    /\ CASE env.tmp = "denied" ->
              Propagate("PermissionError", "call") /\ UNCHANGED <<proc, clock>>
         [] env.tmp = "no_directory" ->
              ReturnToMain(PyNone) /\ UNCHANGED <<proc, clock>>
         [] env.tmp = "writable" /\ env.binary = "missing" ->
              ReturnToMain(PyNone) /\ proc' = "missing" /\ UNCHANGED clock
         [] env.tmp = "writable" /\ env.binary = "not_executable" ->
              Propagate("PermissionError", "call") /\ UNCHANGED <<proc, clock>>
         [] env.tmp = "writable" /\ env.binary = "bad_format" ->
              Propagate("OSError", "call") /\ UNCHANGED <<proc, clock>>
         [] env.tmp = "writable" /\ env.binary = "runs" ->
              /\ pc' = "running"
              /\ proc' = "running"
              /\ clock' = 0
              /\ UNCHANGED <<ocaml_result, raised>>
    /\ UNCHANGED <<env, shown, genVars, anVars, ioVars>>

\* a second passes while subprocess.run waits for the delegate
Tick ==
    /\ pc = "running"
    /\ clock < Timeout
    /\ clock < env.duration
    /\ clock' = clock + 1
    /\ UNCHANGED <<env, pc, proc, ocaml_result, raised, shown, genVars, anVars, ioVars>>

\* the delegate exits: subprocess.run decodes its output (text=True), then
\* the return code is tested and the output parsed.  UnicodeDecodeError is not
\* caught, JSONDecodeError is.
DelegateExits ==
    /\ pc = "running"
    /\ clock = env.duration
    /\ proc' = "exited"
    /\ IF ~env.stdout.decodable THEN Propagate("UnicodeDecodeError", "call")
       ELSE IF env.status = 0 /\ env.stdout.doc # Invalid THEN ReturnToMain(env.stdout.doc)
       ELSE ReturnToMain(PyNone)
    /\ UNCHANGED <<env, clock, shown, genVars, anVars, ioVars>>

\* fault variant: subprocess.run without timeout=, which waits for as long as
\* the delegate runs
TimeoutNever == pc = "running" /\ FALSE /\ UNCHANGED vars

\* the timeout expires first: subprocess.run kills the delegate and raises
\* TimeoutExpired, which is caught
TimeoutExpires ==
    /\ pc = "running"
    /\ clock = Timeout
    /\ proc' = "killed"
    /\ ReturnToMain(PyNone)
    /\ UNCHANGED <<env, clock, shown, genVars, anVars, ioVars>>

\* main uses the result: `if ocaml_result:` prints every item with
\* f"{value:.4f}", else the fallback message
UseResult ==
    /\ pc = "returned"
    /\ IF ~Truthy(ocaml_result)
       THEN /\ shown' = <<"fallback">>
            /\ pc' = "done"
            /\ UNCHANGED raised
       ELSE IF ocaml_result.type # "dict"
       THEN /\ Propagate("AttributeError", "use")
            /\ UNCHANGED shown
       ELSE LET items == ocaml_result.items
                bad == FirstUnprintable(items)
                last == IF bad = 0 THEN Len(items) ELSE bad - 1
            IN /\ shown' = [i \in 1..last |-> items[i][1]]
               /\ IF bad = 0 THEN pc' = "done" /\ UNCHANGED raised
                  ELSE /\ pc' = "crashed"
                       /\ raised' = [error |-> FormatError(items[bad][2]), from |-> "use"]
    /\ UNCHANGED <<env, clock, proc, ocaml_result, genVars, anVars, ioVars>>

NextDelegate ==
    \/ CallOcamlAnalytics
    \/ Tick
    \/ DelegateExits
    \/ TimeoutExpires
    \/ UseResult

SpecDelegate == InitDelegate /\ [][NextDelegate]_vars

\* The same with the progress the platform gives: main is a running thread
\* (it makes its calls and uses their results), wall-clock time passes while
\* subprocess.run waits, the exit of the delegate is noticed, and the timeout
\* of subprocess.run fires once the clock has reached it.  Nothing makes the
\* delegate exit: that is env.duration.
SpecDelegateFair ==
    /\ InitDelegate
    /\ [][NextDelegate]_vars
    /\ WF_vars(CallOcamlAnalytics)
    /\ WF_vars(Tick)
    /\ WF_vars(DelegateExits)
    /\ WF_vars(TimeoutExpires)
    /\ WF_vars(UseResult)

(***************************************************************************)
(* Export of a frame to a CSV file and its import                          *)
(***************************************************************************)
InitCsv ==
    /\ df \in CsvFrames
    /\ res = NoRes
    /\ files = NoFiles
    /\ tape = FixedTape
    /\ now = [r \in Runs |-> 0]
    /\ left = 0
    /\ rng = Unseeded
    /\ seeded = [f \in Instances |-> -1]
    /\ solo = [f \in Instances |-> [key |-> -1, pos |-> 0]]
    /\ out = [r \in Runs |-> NoOut]
    /\ soloOut = NoOut
    /\ used = NoUse
    /\ prevUsed = NoUse
    /\ lastCall = NoCall
    /\ DelegateUnused

\* fetcher.save_to_csv(df, filename)
SaveToCsv(filename) ==
    /\ files' = [files EXCEPT ![filename] = ToCsv(df)]
    /\ res' = [op |-> "save_to_csv", filename |-> filename]
    /\ UNCHANGED <<df, genVars, delVars>>

\* fetcher.load_from_csv(filename)
LoadFromCsv(filename) ==
    /\ res' = IF files[filename] = NoFile
              THEN [op |-> "raise", error |-> "FileNotFoundError"]
              ELSE [op |-> "load_from_csv", filename |-> filename,
                    val |-> ReadCsv(files[filename])]
    /\ UNCHANGED <<df, files, genVars, delVars>>

NextCsv ==
    \/ \E filename \in Filenames : SaveToCsv(filename)
    \/ \E filename \in Filenames : LoadFromCsv(filename)

SpecCsv == InitCsv /\ [][NextCsv]_vars

(***************************************************************************)
(* Properties of the generator                                             *)
(***************************************************************************)
\* every frame returned by the latest call, in either run
ReturnedFrames == {Frames(out[r])[i] : r \in Runs, i \in 1..Len(out[1].data)}

\* a frame without its Date column
Values(frame) == [c \in {"Symbol", "Open", "High", "Low", "Close", "Volume"} |-> frame[c]]

ValuesOf(o) == [i \in DOMAIN o.data |-> Values(Frames(o)[i])]
DatesOf(o) == [i \in DOMAIN o.data |-> Frames(o)[i].Date]

\* C1 as stated: two runs that construct fetchers with the same seeds and issue
\* the same calls return identical series, every row and every column.
C1_Reproducible == out[1] = out[2]

\* C1 amended: the two runs return the same Symbol, Open, High, Low, Close and
\* Volume columns (for generate_multiple_stocks: under the same keys); the
\* Date columns agree as well when the two runs read the same clock.
C1_ReproducibleValues ==
    /\ out[1].kind = out[2].kind
    /\ ValuesOf(out[1]) = ValuesOf(out[2])
    /\ now[1] = now[2] => out[1] = out[2]

C1_Witness ==
    /\ out[1].kind = "multi"
    /\ Len(out[1].data) = 2
    /\ lastCall.days = MaxDays
    /\ DatesOf(out[1]) # DatesOf(out[2])

C3_InstanceIsolated == soloOut.kind # "none" => out[1] = soloOut

\* C4: a call made without reseeding reads only stream positions strictly
\* after those read by the call before it, so no position is read twice.
C4_DrawsAdvance ==
    (prevUsed # NoUse /\ used # NoUse) =>
        /\ used.key = prevUsed.key
        /\ \A p \in prevUsed.reads, q \in used.reads : p < q
        /\ used.reads \cap prevUsed.reads = {}

C4_Witness ==
    /\ prevUsed # NoUse
    /\ Cardinality(prevUsed.reads) = 5 * MaxDays
    /\ Cardinality(used.reads) > 5 * MaxDays

\* C5: no row of a returned series is dated after the moment of the call.
C5_DatesEndAtCall ==
    \A r \in Runs : \A i \in 1..Len(out[r].data) :
        \A j \in 1..Len(Frames(out[r])[i].Date) : Frames(out[r])[i].Date[j] <= now[r]

\* C6: a call with days = n returns n rows whose dates are strictly ascending,
\* never a Saturday or Sunday, with no weekday skipped between two rows.
C6_BusinessDays ==
    \A frame \in ReturnedFrames :
        /\ Len(frame.Date) = lastCall.days
        /\ \A c \in DOMAIN frame : Len(frame[c]) = lastCall.days
        /\ \A j \in 1..Len(frame.Date) : frame.Date[j] % 7 \notin {5, 6}
        /\ \A j \in 1..(Len(frame.Date) - 1) :
              /\ frame.Date[j] < frame.Date[j + 1]
              /\ \A d \in (frame.Date[j] + 1)..(frame.Date[j + 1] - 1) : d % 7 \in {5, 6}

\* two rows on either side of a weekend
C6_Witness ==
    \E frame \in ReturnedFrames : \E j \in 1..(Len(frame.Date) - 1) :
        frame.Date[j + 1] = frame.Date[j] + 3

LastCumSum ==
    CumSum(Normal(tape, lastCall.st, lastCall.drift, lastCall.volatility, lastCall.days))

RECURSIVE SumOf(_)
SumOf(s) == IF Len(s) = 0 THEN R(0) ELSE RAdd(SumOf(Tail(s)), Head(s))

\* the arithmetic mean of s[from..to]
MeanOf(s, from, to) == RDiv(SumOf(SubSeq(s, from, to)), R(to - from + 1))

\* the greatest value among s[1..i], and the least value of a set of reals
MaxUpTo(s, i) == CHOOSE m \in {s[j] : j \in 1..i} : \A j \in 1..i : RLe(s[j], m)
LeastOf(S) == CHOOSE m \in S : \A x \in S : RLe(m, x)

\* C8: compute_returns on n >= 1 positive closes yields n - 1 values, the k-th
\* being close[k] / close[k-1] - 1; the first point contributes no entry.
C8_Returns ==
    res.op = "returns" =>
        /\ Len(res.val) = Len(df.Close) - 1
        /\ \A k \in 1..(Len(df.Close) - 1) :
              res.val[k] = RSub(RDiv(df.Close[k + 1], df.Close[k]), R(1))

\* returns of a series with a repeated close: the 0 return is kept
C8_Witness ==
    /\ res.op = "returns"
    /\ Len(df.Close) = MaxLen
    /\ \E k \in 1..Len(res.val) : res.val[k] = R(0)
    /\ \E k \in 1..Len(res.val) : RLt(res.val[k], R(0))

\* C9: compute_moving_average with window w returns a sequence as long as the
\* input whose first w - 1 entries are undefined and whose entry i, from the
\* w-th on, is the arithmetic mean of the w closes ending at i.
C9_MovingAverage ==
    res.op = "moving_average" =>
        /\ Len(res.val) = Len(df.Close)
        /\ \A i \in 1..Len(df.Close) :
              IF i < res.window
              THEN IsNaN(res.val[i])
              ELSE res.val[i] = MeanOf(df.Close, i - res.window + 1, i)

\* a window that slides: shorter than the series, longer than one row
C9_Witness ==
    /\ res.op = "moving_average"
    /\ res.window > 1
    /\ Len(df.Close) > res.window + 1
    /\ res.val[Len(df.Close)] # res.val[Len(df.Close) - 1]

Drawdowns ==
    {RDiv(RSub(df.Close[i], MaxUpTo(df.Close, i)), MaxUpTo(df.Close, i)) :
        i \in 1..Len(df.Close)}

\* C10: compute_max_drawdown returns the minimum over i of
\* (close[i] - M[i]) / M[i], M[i] the maximum of close[0..i]; it is never
\* positive, it is 0 on a non-decreasing series, and (95 - 110) / 110 on
\* [100, 110, 105, 95, 120].
C10_MaxDrawdown ==
    res.op = "max_drawdown" =>
        /\ res.val = LeastOf(Drawdowns)
        /\ RLe(res.val, R(0))
        /\ (\A i \in 1..(Len(df.Close) - 1) : RLe(df.Close[i], df.Close[i + 1]))
              => res.val = R(0)
        /\ df.Close = Scenario => res.val = Norm(95 - 110, 110)

C10_Witness ==
    /\ res.op = "max_drawdown"
    /\ df.Close = Scenario
    /\ RLt(res.val, R(0))

\* the squared deviations of s from its arithmetic mean, summed
SquaredDeviations(s) ==
    SumOf(Vector([i \in 1..Len(s) |->
                     RMul(RSub(s[i], MeanOf(s, 1, Len(s))), RSub(s[i], MeanOf(s, 1, Len(s))))],
                 Len(s)))

\* the value the volatility must have when the squared deviations are divided
\* by `divisor`
VolatilityWith(divisor) ==
    LET deviation == Sqrt(RDiv(SquaredDeviations(res.of), R(divisor)))
    IN IF res.annualize THEN SurdMul(deviation, Sqrt(R(252))) ELSE deviation

\* C11 as stated: compute_volatility returns the sample standard deviation of
\* the returns (squared deviations from the mean divided by n - 1, then
\* square-rooted), multiplied by sqrt(252) when annualize is set.
C11_SampleDeviation ==
    (res.op = "volatility" /\ Len(res.of) >= 2) =>
        res.val = VolatilityWith(Len(res.of) - 1)

\* C11 amended: compute_volatility returns the population standard deviation
\* of the returns (squared deviations from the mean divided by n, then
\* square-rooted), multiplied by sqrt(252) when annualize is set; it is
\* undefined for an empty return series.
C11_PopulationDeviation ==
    res.op = "volatility" =>
        /\ res.val = VolatilityWith(Len(res.of))
        /\ Len(res.of) = 0 => IsUndefined(res.val)

\* an annualized volatility of several returns that is neither 0 nor the
\* sample deviation
C11_Witness ==
    /\ res.op = "volatility"
    /\ res.annualize
    /\ Len(res.of) > 2
    /\ res.val # OfReal(R(0))
    /\ res.val # VolatilityWith(Len(res.of) - 1)

\* C12: compute_sharpe_ratio returns exactly 0.0 whenever the standard
\* deviation of the return series is 0 (all returns equal, as for a constant
\* price), for either value of annualize and any risk_free_rate.
C12_SharpeZeroDeviation ==
    (/\ res.op = "sharpe_ratio"
     /\ Len(res.of) >= 1
     /\ \A i \in 1..Len(res.of) : res.of[i] = res.of[1]) =>
        res.val = OfReal(R(0))

\* an annualized ratio of constant non-zero returns with a non-zero rate:
\* numerator non-zero, deviation zero
C12_Witness ==
    /\ res.op = "sharpe_ratio"
    /\ res.annualize
    /\ res.risk_free_rate # R(0)
    /\ Len(res.of) >= 2
    /\ \A i \in 1..Len(res.of) : res.of[i] = R(1)
    /\ res.val = OfReal(R(0))

\* no close of the window of `window` rows ending at row i is below the close
\* before it (the first row of the series has no close before it)
NoLossIn(i, window) ==
    \A j \in (i - window + 1)..i : j > 1 => RLe(df.Close[j - 1], df.Close[j])

\* C13: compute_rsi is exactly 100 at every defined index (from the window-th
\* row on) at which the rolling average loss over the window is 0, windows
\* without any gain (flat prices) included; it is never undefined there.
C13_RsiSaturates ==
    res.op = "rsi" =>
        \A i \in res.window..Len(df.Close) :
            NoLossIn(i, res.window) => res.val[i] = R(100)

\* the sample standard deviation (squared deviations from the mean divided by
\* window - 1, then square-rooted) of the `window` closes ending at row i
WindowDeviation(i, window) ==
    Sqrt(RDiv(SquaredDeviations(SubSeq(df.Close, i - window + 1, i)), R(window - 1)))

\* row i of the bands is as C14 says for a full window: middle the trailing
\* mean, upper and lower num_std deviations of the window above and below it
BandsDefinedAt(i) ==
    LET bands == res.val
        spread == SurdScale(WindowDeviation(i, res.window), res.num_std)
    IN /\ ~IsNaN(bands.middle[i])
       /\ ~IsUndefined(bands.upper[i])
       /\ ~IsUndefined(bands.lower[i])
       /\ bands.middle[i] = MeanOf(df.Close, i - res.window + 1, i)
       /\ SurdSub(bands.upper[i], OfReal(bands.middle[i])) = spread
       /\ SurdSub(OfReal(bands.middle[i]), bands.lower[i]) = spread
       /\ (\A j \in (i - res.window + 1)..i : df.Close[j] = df.Close[i]) =>
             /\ bands.upper[i] = OfReal(bands.middle[i])
             /\ bands.lower[i] = OfReal(bands.middle[i])

BandsUndefinedAt(i) ==
    /\ IsNaN(res.val.middle[i])
    /\ IsUndefined(res.val.upper[i])
    /\ IsUndefined(res.val.lower[i])

BandsAligned == \A band \in {"middle", "upper", "lower"} : Len(res.val[band]) = Len(df.Close)

\* C14 as stated: the three bands are as long as the input; all three are
\* undefined before row w and all three defined from row w on, where middle is
\* the trailing mean and upper - middle = middle - lower = k times the rolling
\* standard deviation of the window (a constant window gives upper = lower =
\* middle).
C14_BollingerBands ==
    res.op = "bollinger_bands" =>
        /\ BandsAligned
        /\ \A i \in 1..Len(df.Close) :
              IF i < res.window THEN BandsUndefinedAt(i) ELSE BandsDefinedAt(i)

\* C14 amended: as stated for every window w >= 2, the rolling standard
\* deviation being the sample one (divisor w - 1); with w = 1 the middle band
\* is the close itself and the upper and lower bands are undefined at every
\* row, because one observation has no sample deviation.
C14_BollingerBandsFromTwo ==
    res.op = "bollinger_bands" =>
        /\ BandsAligned
        /\ \A i \in 1..Len(df.Close) :
              IF res.window = 1
              THEN /\ res.val.middle[i] = df.Close[i]
                   /\ IsUndefined(res.val.upper[i])
                   /\ IsUndefined(res.val.lower[i])
              ELSE IF i < res.window THEN BandsUndefinedAt(i) ELSE BandsDefinedAt(i)

\* bands over a sliding window that is constant at one row and not at another
C14_Witness ==
    /\ res.op = "bollinger_bands"
    /\ res.window > 1
    /\ res.num_std = R(2)
    /\ Len(df.Close) > res.window
    /\ \E i \in res.window..Len(df.Close) : res.val.upper[i] = OfReal(res.val.middle[i])
    /\ \E i \in res.window..Len(df.Close) :
          /\ res.val.upper[i] # OfReal(res.val.middle[i])
          /\ res.val.lower[i] # res.val.upper[i]

\* C15: compute_mean never returns a value for an empty series (it fails with
\* InvalidInput instead).  res.op = "mean" records a call that returned, res.of
\* the series it was given and res.val the value returned.
C15_MeanRejectsEmpty == ~(res.op = "mean" /\ Len(res.of) = 0)

\* C17: compute_moving_average, compute_bollinger_bands and compute_rsi never
\* return for a window longer than the series (they report InvalidInput
\* instead); in particular they return no sequence that is undefined throughout.
C17_WindowTooLongRejected ==
    ~(/\ res.op \in {"moving_average", "bollinger_bands", "rsi"}
      /\ res.window > Len(df.Close))

\* C16: generate_stock_prices with days <= 0 is rejected: the call raises,
\* returns no series (not even an empty one) and leaves the random stream
\* where it found it (used # NoUse: no fetcher was constructed since the call).
C16_NonPositiveDaysRejected ==
    (lastCall.kind = "single" /\ lastCall.days <= 0) =>
        /\ \A r \in Runs : out[r].kind = "raise" /\ out[r].data = <<>>
        /\ used.reads = {}
        /\ used # NoUse => rng[1] = lastCall.st

\* C18: generate_summary_report on a one-row series returns a report without
\* raising; mean_daily_return, volatility_daily, volatility_annual and
\* sharpe_ratio are undefined (NaN), total_days is 1, mean_price, min_price and
\* max_price are the single close, max_drawdown and total_return are 0.
C18_ReportOfOneRow ==
    Len(df.Close) = 1 =>
        /\ res.op # "raise"
        /\ res.op = "summary_report" =>
              /\ IsNaN(res.val.mean_daily_return)
              /\ IsUndefined(res.val.volatility_daily)
              /\ IsUndefined(res.val.volatility_annual)
              /\ IsUndefined(res.val.sharpe_ratio)
              /\ res.val.total_days = 1
              /\ res.val.mean_price = df.Close[1]
              /\ res.val.min_price = df.Close[1]
              /\ res.val.max_price = df.Close[1]
              /\ res.val.max_drawdown = R(0)
              /\ res.val.total_return = R(0)

C18_Witness ==
    /\ res.op = "summary_report"
    /\ Len(df.Close) = 1
    /\ df.Close[1] = R(4)
    /\ res.val.period = <<1, 1>>

(***************************************************************************)
(* Properties of the delegate block                                        *)
(***************************************************************************)
\* control has left call_ocaml_analytics, by a return or by an exception
CallLeft == pc \in {"returned", "done", "crashed"}

\* the delegate printed a JSON document
PrintedJson == env.stdout.decodable /\ env.stdout.doc # Invalid

\* C19: when the delegate binary is missing, the delegate exits with a
\* non-zero status, exceeds the timeout, or exits 0 with output that is not
\* valid JSON, call_ocaml_analytics returns None and raises nothing; it
\* returns the parsed output only when the delegate exited 0 and printed
\* valid JSON.
C19_DelegateUnavailable ==
    /\ (/\ CallLeft
        /\ \/ proc = "missing"
           \/ proc = "killed"
           \/ proc = "exited" /\ env.status # 0
           \/ proc = "exited" /\ env.status = 0 /\ ~PrintedJson) =>
          /\ raised.from # "call"
          /\ ocaml_result = PyNone
    /\ ocaml_result \notin {Unset, PyNone} =>
          /\ proc = "exited" /\ env.status = 0 /\ PrintedJson
          /\ ocaml_result = env.stdout.doc

\* the delegate gave main something to print: an object of numbers
Usable(stdout) ==
    /\ stdout.decodable
    /\ stdout.doc.type = "dict"
    /\ \A i \in DOMAIN stdout.doc.items : stdout.doc.items[i][2].type = "float"

\* the delegate invocation failed in one of the ways of C20
DelegateFailed ==
    \/ env.tmp # "writable"
    \/ env.binary # "runs"
    \/ proc = "killed"
    \/ proc = "exited" /\ (env.status # 0 \/ ~Usable(env.stdout))

\* C20: no error leaves call_ocaml_analytics or main's use of its result, and
\* whenever the delegate invocation failed (temporary file not writable,
\* binary not executable, other OS error, unusable output) main ends the
\* block having printed the fallback only.
C20_DelegateFailureHarmless ==
    /\ pc # "crashed"
    /\ (pc = "done" /\ DelegateFailed) => shown = <<"fallback">>

\* C21: call_ocaml_analytics never blocks its caller forever: control always
\* leaves the call, and when the delegate would not exit on its own within
\* the timeout the call returns None (delegate unavailable) once the 5 seconds
\* have elapsed.
C21_CallCompletes ==
    /\ (pc = "report") ~> CallLeft
    /\ (pc = "running" /\ env.duration > Timeout) ~>
          (pc = "returned" /\ proc = "killed" /\ clock = Timeout /\ ocaml_result = PyNone)

\* a delegate that was still running when the timeout expired, after which
\* main printed the fallback
C21_Witness ==
    /\ env.duration > Timeout
    /\ proc = "killed"
    /\ clock = Timeout
    /\ pc = "done"
    /\ shown = <<"fallback">>

(***************************************************************************)
(* The first window of compute_rsi                                         *)
(***************************************************************************)
\* the sum of the price changes close[j+1] - close[j], j = 1 .. n, that are
\* gains (sign = 1) or losses (sign = -1), each taken as a positive amount
RECURSIVE ChangeSum(_, _)
ChangeSum(n, sign) ==
    IF n = 0 THEN R(0)
    ELSE LET change == RSub(df.Close[n + 1], df.Close[n])
         IN RAdd(ChangeSum(n - 1, sign),
                 IF Sign(change[1]) = sign THEN RAbs(change) ELSE R(0))

\* the RSI of the first `window` rows: the window - 1 changes between them,
\* averaged over `window` entries (the first row counting as a change of 0)
RsiOfFirstWindow(window) ==
    LET gain == RDiv(ChangeSum(window - 1, 1), R(window))
        loss == RDiv(ChangeSum(window - 1, -1), R(window))
    IN RSub(R(100), RDiv(R(100), RAdd(R(1), RDiv(gain, loss))))

\* C27: compute_rsi counts the first row as a change of 0, so the RSI is
\* defined from row `window` on (index window - 1 counted from 0), not from
\* the row after it, and its value there is computed from the window - 1
\* changes between the first `window` closes only.
C27_RsiDefinedFromFirstWindow ==
    (res.op = "rsi" /\ res.window <= Len(df.Close)) =>
        /\ \A i \in 1..(res.window - 1) : IsNaN(res.val[i])
        /\ ~IsNaN(res.val[res.window])
        /\ res.val[res.window] = RsiOfFirstWindow(res.window)

\* the part of C27 that holds: no row before row `window` has a value, and
\* the value of row `window` is the one computed from the window - 1 changes
C27_RsiOfFirstWindow ==
    (res.op = "rsi" /\ res.window <= Len(df.Close)) =>
        /\ \A i \in 1..(res.window - 1) : IsNaN(res.val[i])
        /\ res.val[res.window] = RsiOfFirstWindow(res.window)

(***************************************************************************)
(* generate_multiple_stocks                                                *)
(***************************************************************************)
\* the variates one element of the list consumes: three parameters and the
\* five draws of generate_stock_prices
DrawsPerSymbol(days) == 3 + 5 * days

\* the stream state the k-th element of the list meets
StateAt(k) == Advance(lastCall.st, (k - 1) * DrawsPerSymbol(lastCall.days))

\* the j-th parameter drawn for the k-th element, from [low, high)
DrawnAt(k, j, low, high) ==
    RAdd(low, RMul(RSub(high, low), Unit(RawAt(tape, Advance(StateAt(k), j - 1), 1))))

\* the series generated for the k-th element
SeriesAt(k) ==
    StockFrame(tape, Advance(StateAt(k), 3), now[1], lastCall.symbols[k], lastCall.days,
               DrawnAt(k, 1, R(50), R(200)),
               DrawnAt(k, 2, <<-1, 2000>>, <<1, 1000>>),
               DrawnAt(k, 3, <<1, 100>>, <<3, 100>>))

\* the last place of a symbol in the list
LastPlace(symbol) ==
    CHOOSE k \in DOMAIN lastCall.symbols :
        /\ lastCall.symbols[k] = symbol
        /\ \A j \in DOMAIN lastCall.symbols : lastCall.symbols[j] = symbol => j <= k

FlatCall ==
    /\ lastCall.kind = "single"
    /\ out[1].kind = "single"
    /\ lastCall.drift = R(0)
    /\ lastCall.volatility = R(0)
    /\ lastCall.days >= 1

\* every close of the series returned is initial_price
FlatCloses ==
    /\ Len(out[1].data[1].Close) = lastCall.days
    /\ \A i \in 1..lastCall.days : out[1].data[1].Close[i] = lastCall.initial_price

\* C25: with drift = 0 and volatility = 0, generate_stock_prices returns, for
\* every seed and every days >= 1, a series whose close is initial_price at
\* every index, and the summary report of that series has total_return = 0.0,
\* max_drawdown = 0.0 and sharpe_ratio = 0.0.
C25_FlatSeries ==
    FlatCall =>
        /\ FlatCloses
        /\ res.op = "summary_report" =>
              /\ res.val.total_return = R(0)
              /\ res.val.max_drawdown = R(0)
              /\ res.val.sharpe_ratio = OfReal(R(0))

\* C25 as it holds: the closes are initial_price for every seed and every
\* days >= 1; for an initial_price other than 0 the report has total_return =
\* 0.0 and max_drawdown = 0.0, and sharpe_ratio = 0.0 when days >= 2, while
\* the series of one day has no return and its sharpe_ratio is undefined (NaN).
C25_FlatSeriesReport ==
    FlatCall =>
        /\ FlatCloses
        /\ (res.op = "summary_report" /\ lastCall.initial_price # R(0)) =>
              /\ res.val.total_return = R(0)
              /\ res.val.max_drawdown = R(0)
              /\ lastCall.days >= 2 => res.val.sharpe_ratio = OfReal(R(0))
              /\ lastCall.days = 1 => IsUndefined(res.val.sharpe_ratio)

\* the report of a flat series of two days, generated from the second seed
C25_Witness ==
    /\ FlatCall
    /\ lastCall.st.key = DefaultSeed + 1
    /\ lastCall.days = 2
    /\ lastCall.initial_price = R(50)
    /\ res.op = "summary_report"
    /\ res.val.mean_price = R(50)

(***************************************************************************)
(* The symbol and the draws                                                *)
(***************************************************************************)
\* the Open, High, Low, Close and Volume columns of a frame
Ohlcv(frame) == [c \in {"Open", "High", "Low", "Close", "Volume"} |-> frame[c]]

\* the latest call was the first generate_stock_prices call of its instance
\* since the instance was constructed
FirstCallOfInstance ==
    /\ lastCall.kind = "single"
    /\ out[1].kind = "single"
    /\ used # NoUse
    /\ solo[lastCall.f] = StockStream(SeedStream(solo[lastCall.f], seeded[lastCall.f]),
                                      lastCall.days)

\* what the first call of another fetcher constructed with `seed`, made for
\* `symbol` with the arguments of the latest call, returns
FirstCallOfAnother(seed, symbol) ==
    StockFrame(tape, SeedStream(rng[1], seed), now[1], symbol, lastCall.days,
               lastCall.initial_price, lastCall.drift, lastCall.volatility)

\* C26: the first generate_stock_prices call of a freshly constructed fetcher
\* returns the Open, High, Low, Close and Volume values that the first call
\* of any other fetcher freshly constructed with the same seed returns for
\* the same days, initial_price, drift and volatility, whatever the symbols.
C26_FreshFetchersAgree ==
    FirstCallOfInstance =>
        \A symbol \in Symbols :
            Ohlcv(out[1].data[1]) = Ohlcv(FirstCallOfAnother(seeded[lastCall.f], symbol))

\* the part of C26 that holds: a call that finds the stream where the
\* construction of its instance left it returns values that depend on the
\* seed and the numeric arguments only
C26_UndisturbedFetchersAgree ==
    (FirstCallOfInstance /\ lastCall.st = SeedStream(rng[1], seeded[lastCall.f])) =>
        \A symbol \in Symbols :
            Ohlcv(out[1].data[1]) = Ohlcv(FirstCallOfAnother(seeded[lastCall.f], symbol))

(***************************************************************************)
(* The engine leaves its input alone                                       *)
(***************************************************************************)
\* C23: no operation of the analytics engine (compute_returns, compute_mean,
\* compute_volatility, compute_sharpe_ratio, compute_max_drawdown,
\* compute_moving_average, compute_bollinger_bands, compute_rsi,
\* generate_summary_report) changes the frame it is given: in every step of
\* every sequence of these calls the frame keeps its rows, columns and values.
C23_InputUnmodified == [][df' = df]_vars

\* an operation has returned a result for a frame of several rows
C23_Witness ==
    /\ res.op \in {"returns", "mean", "volatility", "sharpe_ratio", "max_drawdown",
                   "moving_average", "bollinger_bands", "rsi", "summary_report"}
    /\ Len(df.Close) >= 2

(***************************************************************************)
(* Export and import                                                       *)
(***************************************************************************)
\* the frame read back holds row i of the frame that was saved
SameRow(loaded, frame, i) ==
    /\ loaded.Date.dtype = "datetime64"
    /\ loaded.Date.values[i] = frame.Date[i]
    /\ loaded.Symbol.dtype = "object"
    /\ loaded.Symbol.values[i] = PyStr(frame.Symbol[i])
    /\ \A name \in {"Open", "High", "Low", "Close"} :
          /\ loaded[name].dtype = "float64"
          /\ loaded[name].values[i] = frame[name][i]
    /\ loaded.Volume.dtype = "int64"
    /\ loaded.Volume.values[i] = frame.Volume[i]

\* C22: load_from_csv of the file save_to_csv wrote for a frame returns the
\* rows of that frame: as many rows, in the same order, each with the same
\* Date, Symbol, Open, High, Low, Close and Volume, whatever the symbol is.
C22_ExportRoundTrip ==
    res.op = "load_from_csv" =>
        /\ \A name \in DOMAIN df : Len(res.val[name].values) = Len(df[name])
        /\ \A i \in 1..Len(df.Date) : SameRow(res.val, df, i)

\* the part of C22 that holds: the round trip of a frame whose symbol is
\* neither a word for a missing value nor a numeral
C22_OrdinarySymbolRoundTrip ==
    (res.op = "load_from_csv" /\ \A i \in DOMAIN df.Symbol :
          df.Symbol[i] \notin NaStrings /\ df.Symbol[i] \notin DOMAIN Numerals) =>
        /\ \A name \in DOMAIN df : Len(res.val[name].values) = Len(df[name])
        /\ \A i \in 1..Len(df.Date) : SameRow(res.val, df, i)

====
